---- MODULE Spec2Model ----
(***************************************************************************)
(* log-sheriff: Summarizer::summarize and the pure helpers it is built     *)
(* from (src/src/summarizer.cpp).                                          *)
(*                                                                         *)
(* A std::string is a TLA+ string; one character is a string of length 1.  *)
(* std::optional<T> is a record [has_value, value].  A std::time_t is kept *)
(* as the pair <<day, sec>> with epoch_seconds = day * 86400 + sec and     *)
(* 0 <= sec < 86400, because 64-bit second counts (year 0000, year 9999)   *)
(* do not fit the model checker's integers.                                *)
(***************************************************************************)
EXTENDS Integers, Sequences, FiniteSets, TLC

VARIABLES
    options,            \* SummarizeOptions: files, contains, level, since, until, top_n
    openable,           \* openable[i]: std::ifstream can open options.files[i]
    host_utc_offset,    \* seconds east of UTC of the host's local time zone (std::mktime)
    pc,                 \* position inside Summarizer::summarize
    since_bound,        \* std::optional<std::time_t>
    until_bound,        \* std::optional<std::time_t>
    file_index,         \* 1-based index of the file the range-for is at
    open_streams,       \* indices of the files whose std::ifstream is alive
    open_attempts,      \* number of std::ifstream constructions so far
    frequency,          \* std::unordered_map<std::string, std::uint64_t>
    result,             \* SummaryResult under construction
    returned,           \* what the caller receives: nothing yet, a result, or an exception
    current_line,       \* std::string line of the file loop, once std::getline has filled it
    normalizer,         \* normalize_line applied to a string x, and again to its own output
    process,            \* main: the command line, and how the process ended
    stamp               \* parse_timestamp_prefix applied to a string

summarize_vars ==
    <<options, openable, host_utc_offset, pc, since_bound, until_bound, file_index,
      open_streams, open_attempts, frequency, result, returned, current_line>>

summarize_vars_but_pc ==
    <<options, openable, host_utc_offset, since_bound, until_bound, file_index,
      open_streams, open_attempts, frequency, result, returned, current_line>>

\* What Summarizer::summarize never touches.
other_vars == <<normalizer, process, stamp>>

vars == <<summarize_vars, other_vars>>

-----------------------------------------------------------------------------
(* Bounds of the model.                                                    *)

MaxFiles == 2
MaxLines == 3
MaxTokens == 3

-----------------------------------------------------------------------------
(* std::optional                                                           *)

nullopt == [has_value |-> FALSE]
Some(v) == [has_value |-> TRUE, value |-> v]

-----------------------------------------------------------------------------
(* Characters and strings                                                  *)

At(s, i) == SubSeq(s, i, i)

\* The printable ASCII characters in code order: 0x20 .. 0x5F, and 0x61 .. 0x7E
\* (0x60 cannot be written in a string of this language and is left out).
AsciiLow == " !\"#$%&'()*+,-./0123456789:;<=>?@ABCDEFGHIJKLMNOPQRSTUVWXYZ[\\]^_"
AsciiHigh == "abcdefghijklmnopqrstuvwxyz{|}~"

AsciiCode ==
    [c \in {At(AsciiLow, i) : i \in 1..Len(AsciiLow)} \cup
            {At(AsciiHigh, i) : i \in 1..Len(AsciiHigh)} |->
        IF \E i \in 1..Len(AsciiLow) : At(AsciiLow, i) = c
        THEN 31 + (CHOOSE i \in 1..Len(AsciiLow) : At(AsciiLow, i) = c)
        ELSE 96 + (CHOOSE i \in 1..Len(AsciiHigh) : At(AsciiHigh, i) = c)]

\* The value of a char as unsigned char.
Ord(c) ==
    CASE c = "\t" -> 9
      [] c = "\n" -> 10
      [] c = "\f" -> 12
      [] c = "\r" -> 13
      [] OTHER -> AsciiCode[c]

\* std::isspace in the "C" locale (vertical tab has no TLA+ string escape).
isspace(c) == c \in {" ", "\t", "\n", "\f", "\r"}

Digits == "0123456789"

DigitChars == {At(Digits, i) : i \in 1..Len(Digits)}

\* The numeric value of a digit character (ch - '0').
DigitValue == [c \in DigitChars |-> (CHOOSE i \in 1..Len(Digits) : At(Digits, i) = c) - 1]

isdigit(c) == c \in DigitChars

Upper == "ABCDEFGHIJKLMNOPQRSTUVWXYZ"
Lower == "abcdefghijklmnopqrstuvwxyz"

UpperChars == {At(Upper, i) : i \in 1..Len(Upper)}

LowerOf == [c \in UpperChars |-> At(Lower, CHOOSE i \in 1..Len(Upper) : At(Upper, i) = c)]

\* std::tolower in the "C" locale.
tolower(c) == IF c \in UpperChars THEN LowerOf[c] ELSE c

RECURSIVE to_lower_copy(_)
to_lower_copy(input) ==
    IF input = "" THEN ""
    ELSE tolower(At(input, 1)) \o to_lower_copy(SubSeq(input, 2, Len(input)))

\* haystack.find(needle) != std::string::npos
Contains(haystack, needle) ==
    \E i \in 0..(Len(haystack) - Len(needle)) :
        SubSeq(haystack, i + 1, i + Len(needle)) = needle

\* std::string operator<: lexicographic on unsigned char values.
StringLess(a, b) ==
    LET n == IF Len(a) < Len(b) THEN Len(a) ELSE Len(b)
        diff == {i \in 1..n : At(a, i) # At(b, i)}
    IN  IF diff = {} THEN Len(a) < Len(b)
        ELSE LET i == CHOOSE j \in diff : \A k \in diff : j <= k
             IN  Ord(At(a, i)) < Ord(At(b, i))

\* The index of the first non-space character (input.size() + 1 when there is none).
TrimStart(input) ==
    LET ns == {i \in 1..Len(input) : ~isspace(At(input, i))}
    IN  IF ns = {} THEN Len(input) + 1 ELSE CHOOSE i \in ns : \A k \in ns : i <= k

\* The index of the last non-space character (TrimStart(input) - 1 when there is none).
TrimEnd(input) ==
    LET ns == {i \in 1..Len(input) : ~isspace(At(input, i))}
    IN  IF ns = {} THEN Len(input) ELSE CHOOSE i \in ns : \A k \in ns : i >= k

trim(input) == SubSeq(input, TrimStart(input), TrimEnd(input))

\* The collapsing loop of trim_and_collapse_ws over the trimmed range.
RECURSIVE CollapseFrom(_, _, _)
CollapseFrom(input, i, previous_was_space) ==
    IF i > Len(input) THEN ""
    ELSE IF isspace(At(input, i))
         THEN (IF previous_was_space THEN "" ELSE " ") \o CollapseFrom(input, i + 1, TRUE)
         ELSE At(input, i) \o CollapseFrom(input, i + 1, FALSE)

trim_and_collapse_ws(input) == CollapseFrom(trim(input), 1, FALSE)

\* The digit-run loop of normalize_line.
RECURSIVE ReplaceDigitsFrom(_, _, _)
ReplaceDigitsFrom(collapsed, i, in_number) ==
    IF i > Len(collapsed) THEN ""
    ELSE IF isdigit(At(collapsed, i))
         THEN (IF in_number THEN "" ELSE "<num>") \o ReplaceDigitsFrom(collapsed, i + 1, TRUE)
         ELSE At(collapsed, i) \o ReplaceDigitsFrom(collapsed, i + 1, FALSE)

\* A slip: the digit runs are left as they are.
normalize_line_keeping_digits(input) ==
    LET collapsed == trim_and_collapse_ws(input)
    IN  IF collapsed = "" THEN "<empty>" ELSE collapsed

normalize_line(input) ==
    LET collapsed == trim_and_collapse_ws(input)
    IN  IF collapsed = "" THEN "<empty>" ELSE ReplaceDigitsFrom(collapsed, 1, FALSE)

-----------------------------------------------------------------------------
(* Levels                                                                  *)

\* enum class LogLevel, by its underlying value.
Error == 0
Warn == 1
Info == 2
Debug == 3

LogLevel == {Error, Warn, Info, Debug}

Keyword(level) ==
    CASE level = Error -> "error"
      [] level = Warn -> "warn"
      [] level = Info -> "info"
      [] level = Debug -> "debug"

line_has_level(line, wanted) ==
    IF wanted \in LogLevel THEN Contains(to_lower_copy(line), Keyword(wanted)) ELSE FALSE

\* A slip: the keywords are searched in the line as written.
detect_level_case_sensitive(line) ==
    IF Contains(line, "error") THEN Some(Error)
    ELSE IF Contains(line, "warn") THEN Some(Warn)
    ELSE IF Contains(line, "info") THEN Some(Info)
    ELSE IF Contains(line, "debug") THEN Some(Debug)
    ELSE nullopt

detect_level(line) ==
    LET lower == to_lower_copy(line)
    IN  IF Contains(lower, "error") THEN Some(Error)
        ELSE IF Contains(lower, "warn") THEN Some(Warn)
        ELSE IF Contains(lower, "info") THEN Some(Info)
        ELSE IF Contains(lower, "debug") THEN Some(Debug)
        ELSE nullopt

-----------------------------------------------------------------------------
(* Timestamps                                                              *)

SecondsPerDay == 86400

\* A std::time_t value, as <<day, sec>> (see the head of the module).
EpochOf(day, sec) == <<day + (sec \div SecondsPerDay), sec % SecondsPerDay>>

TimeLess(a, b) == a[1] < b[1] \/ (a[1] = b[1] /\ a[2] < b[2])

\* static_cast<std::time_t>(-1)
TimeMinusOne == EpochOf(0, -1)

\* pos is the 0-based offset of the code.
parse_fixed_int(input, pos, len) ==
    IF pos + len > Len(input) THEN nullopt
    ELSE IF \E i \in 1..len : ~isdigit(At(input, pos + i)) THEN nullopt
    ELSE LET RECURSIVE Value(_)
             Value(n) == IF n = 0 THEN 0
                         ELSE Value(n - 1) * 10 + DigitValue[At(input, pos + n)]
         IN  Some(Value(len))

is_leap_year(year) ==
    IF year % 400 = 0 THEN TRUE
    ELSE IF year % 100 = 0 THEN FALSE
    ELSE year % 4 = 0

kDaysByMonth == <<31, 28, 31, 30, 31, 30, 31, 31, 30, 31, 30, 31>>

days_in_month(year, month) ==
    IF month < 1 \/ month > 12 THEN 0
    ELSE IF month = 2 /\ is_leap_year(year) THEN 29
    ELSE kDaysByMonth[month]

\* Days from 1970-01-01 to year-month-day in the proleptic Gregorian calendar.
DaysFromCivil(year, month, day) ==
    LET y == IF month <= 2 THEN year - 1 ELSE year
        era == y \div 400
        yoe == y - era * 400
        mp == IF month > 2 THEN month - 3 ELSE month + 9
        doy == (153 * mp + 2) \div 5 + day - 1
        doe == yoe * 365 + yoe \div 4 - yoe \div 100 + doy
    IN  era * 146097 + doe - 719468

\* timegm: tm is [year, month, day, hour, minute, second] (calendar values,
\* not the tm_year - 1900 / tm_mon - 1 encodings).
to_time_utc(tm) ==
    EpochOf(DaysFromCivil(tm.year, tm.month, tm.day),
            tm.hour * 3600 + tm.minute * 60 + tm.second)

\* std::mktime with tm_isdst = -1 on a host whose zone is a fixed offset from UTC.
mktime(tm, utc_offset) ==
    EpochOf(DaysFromCivil(tm.year, tm.month, tm.day),
            tm.hour * 3600 + tm.minute * 60 + tm.second - utc_offset)

parse_timestamp_prefix(input, utc_offset) ==
    IF Len(input) < 19 THEN nullopt
    ELSE IF At(input, 5) # "-" \/ At(input, 8) # "-" \/ At(input, 14) # ":" \/ At(input, 17) # ":"
    THEN nullopt
    ELSE LET separator == At(input, 11)
             year == parse_fixed_int(input, 0, 4)
             month == parse_fixed_int(input, 5, 2)
             day == parse_fixed_int(input, 8, 2)
             hour == parse_fixed_int(input, 11, 2)
             minute == parse_fixed_int(input, 14, 2)
             second == parse_fixed_int(input, 17, 2)
             is_utc_z == separator = "T"
             consumed_chars == IF is_utc_z THEN 20 ELSE 19
         IN  IF separator # "T" /\ separator # " " THEN nullopt
             ELSE IF ~year.has_value \/ ~month.has_value \/ ~day.has_value \/
                     ~hour.has_value \/ ~minute.has_value \/ ~second.has_value
             THEN nullopt
             ELSE IF month.value < 1 \/ month.value > 12 THEN nullopt
             ELSE IF day.value < 1 \/ day.value > days_in_month(year.value, month.value)
             THEN nullopt
             ELSE IF hour.value < 0 \/ hour.value > 23 \/ minute.value < 0 \/
                     minute.value > 59 \/ second.value < 0 \/ second.value > 59
             THEN nullopt
             ELSE IF is_utc_z /\ (Len(input) < 20 \/ At(input, 20) # "Z") THEN nullopt
             ELSE IF Len(input) > consumed_chars /\ ~isspace(At(input, consumed_chars + 1))
             THEN nullopt
             ELSE LET tm == [year |-> year.value, month |-> month.value, day |-> day.value,
                             hour |-> hour.value, minute |-> minute.value,
                             second |-> second.value]
                      epoch_seconds == IF is_utc_z THEN to_time_utc(tm)
                                       ELSE mktime(tm, utc_offset)
                  IN  IF epoch_seconds = TimeMinusOne THEN nullopt
                      ELSE Some([epoch_seconds |-> epoch_seconds,
                                 consumed_chars |-> consumed_chars])

parse_timestamp_exact(input, utc_offset) ==
    LET trimmed == trim(input)
        parsed == parse_timestamp_prefix(trimmed, utc_offset)
    IN  IF ~parsed.has_value THEN nullopt
        ELSE IF parsed.value.consumed_chars # Len(trimmed) THEN nullopt
        ELSE Some(parsed.value.epoch_seconds)

-----------------------------------------------------------------------------
(* Inputs                                                                  *)

\* The lines std::getline can deliver.
Lines ==
    { "2026-02-09T18:01:03Z INFO request took 12ms",
      "2026-02-09T18:01:06Z  INFO\trequest took 45ms ",
      "2026-02-09 18:01:03 warning: debug disconnected 95%",
      "[ERROR] connected user=101",
      "DEBUG cache miss key=abc",
      "" }

Paths == <<"a.log", "b.log", "c.log", "d.log">>

SinceChoices ==
    { nullopt, Some("2026-02-09T18:01:03Z"), Some("2026-02-09T18:01:03") }

UntilChoices ==
    { nullopt, Some(" 2026-02-09 18:01:03 "), Some("2026-02-30T00:00:00Z") }

ContainsChoices == { nullopt, Some("connected") }

LevelChoices == { nullopt } \cup { Some(l) : l \in LogLevel }

\* Seconds east of UTC of the host zones considered.
HostUtcOffsets == { 0, 3600 }

\* SummarizeOptions::top_n defaults to 10.
DefaultTopN == 10

\* top_n = 0, and a top_n that is below, at or above the number of distinct keys.
TopChoices == { 0, 2 }

OptionsChoices ==
    [ files : { SubSeq(Paths, 1, n) : n \in 0..MaxFiles },
      contains : ContainsChoices,
      level : LevelChoices,
      since : SinceChoices,
      until : UntilChoices,
      top_n : TopChoices ]

-----------------------------------------------------------------------------
(* Summarizer::summarize                                                   *)

\* A default-constructed SummaryResult.
EmptyResult ==
    [ files_processed |-> 0,
      total_lines |-> 0,
      matched_lines |-> 0,
      matched_by_level |-> [l \in LogLevel |-> 0],
      top_lines |-> <<>> ]

NoFrequency == [k \in {} |-> 0]

\* summarize called directly (the library and its tests): no main is running.
NoProcess == [started |-> FALSE]

\* parse_timestamp_prefix not under test.
NoStamp == [input |-> "", parsed |-> nullopt, called |-> FALSE]

Init ==
    /\ options \in OptionsChoices
    /\ openable \in [1..Len(options.files) -> BOOLEAN]
    /\ host_utc_offset \in HostUtcOffsets
    /\ pc = "validate"
    /\ since_bound = nullopt
    /\ until_bound = nullopt
    /\ file_index = 1
    /\ open_streams = {}
    /\ open_attempts = 0
    /\ frequency = NoFrequency
    /\ result = EmptyResult
    /\ returned = [kind |-> "none"]
    /\ current_line = nullopt
    /\ normalizer = [x |-> "", once |-> nullopt, twice |-> nullopt]
    /\ process = NoProcess
    /\ stamp = NoStamp

\* A slip: the order of the two bounds is never checked.
validate_without_order_check(opts, utc_offset) ==
    LET since == IF opts.since.has_value
                 THEN parse_timestamp_exact(opts.since.value, utc_offset) ELSE nullopt
        until == IF opts.until.has_value
                 THEN parse_timestamp_exact(opts.until.value, utc_offset) ELSE nullopt
    IN  IF opts.files = <<>> THEN "no input files supplied"
        ELSE IF opts.since.has_value /\ ~since.has_value THEN "invalid --since timestamp"
        ELSE IF opts.until.has_value /\ ~until.has_value THEN "invalid --until timestamp"
        ELSE "ok"

\* The option checks at the head of summarize: "ok", or the message of the
\* std::invalid_argument thrown.
validate(opts, utc_offset) ==
    LET since == IF opts.since.has_value
                 THEN parse_timestamp_exact(opts.since.value, utc_offset) ELSE nullopt
        until == IF opts.until.has_value
                 THEN parse_timestamp_exact(opts.until.value, utc_offset) ELSE nullopt
    IN  IF opts.files = <<>> THEN "no input files supplied"
        ELSE IF opts.since.has_value /\ ~since.has_value THEN "invalid --since timestamp"
        ELSE IF opts.until.has_value /\ ~until.has_value THEN "invalid --until timestamp"
        ELSE IF since.has_value /\ until.has_value /\ TimeLess(until.value, since.value)
        THEN "--since must be less than or equal to --until"
        ELSE "ok"

Validate ==
    /\ pc = "validate"
    /\ LET verdict == validate(options, host_utc_offset)
       IN  IF verdict # "ok"
           THEN /\ returned' = [kind |-> "invalid_argument", what |-> verdict]
                /\ pc' = "done"
                /\ UNCHANGED <<since_bound, until_bound>>
           ELSE /\ since_bound' = IF options.since.has_value
                                  THEN parse_timestamp_exact(options.since.value, host_utc_offset)
                                  ELSE nullopt
                /\ until_bound' = IF options.until.has_value
                                  THEN parse_timestamp_exact(options.until.value, host_utc_offset)
                                  ELSE nullopt
                /\ pc' = "next_file"
                /\ UNCHANGED returned
    /\ UNCHANGED other_vars
    /\ UNCHANGED <<options, openable, host_utc_offset, file_index, open_streams,
                   open_attempts, frequency, result, current_line>>

\* A slip: the line counters are restarted for every file.
OpenFile_restarting_counters ==
    /\ pc = "next_file"
    /\ file_index <= Len(options.files)
    /\ open_attempts' = open_attempts + 1
    /\ IF ~openable[file_index]
       THEN /\ returned' = [kind |-> "runtime_error",
                            what |-> "failed to open file: " \o options.files[file_index]]
            /\ pc' = "done"
            /\ UNCHANGED <<open_streams, result>>
       ELSE /\ open_streams' = open_streams \cup {file_index}
            /\ result' = [result EXCEPT !.files_processed = @ + 1,
                                        !.total_lines = 0,
                                        !.matched_lines = 0]
            /\ pc' = "read_line"
            /\ UNCHANGED returned
    /\ UNCHANGED other_vars
    /\ UNCHANGED <<options, openable, host_utc_offset, since_bound, until_bound,
                   file_index, frequency, current_line>>

\* A slip: a file that cannot be opened is skipped.
OpenFile_skipping_unopenable ==
    /\ pc = "next_file"
    /\ file_index <= Len(options.files)
    /\ open_attempts' = open_attempts + 1
    /\ IF ~openable[file_index]
       THEN /\ file_index' = file_index + 1
            /\ UNCHANGED <<open_streams, result, pc>>
       ELSE /\ open_streams' = open_streams \cup {file_index}
            /\ result' = [result EXCEPT !.files_processed = @ + 1]
            /\ pc' = "read_line"
            /\ UNCHANGED file_index
    /\ UNCHANGED other_vars
    /\ UNCHANGED <<options, openable, host_utc_offset, since_bound, until_bound,
                   returned, frequency, current_line>>

\* std::ifstream in(path): the open fails (runtime_error) or the stream is alive.
OpenFile ==
    /\ pc = "next_file"
    /\ file_index <= Len(options.files)
    /\ open_attempts' = open_attempts + 1
    /\ IF ~openable[file_index]
       THEN /\ returned' = [kind |-> "runtime_error",
                            what |-> "failed to open file: " \o options.files[file_index]]
            /\ pc' = "done"
            /\ UNCHANGED <<open_streams, result>>
       ELSE /\ open_streams' = open_streams \cup {file_index}
            /\ result' = [result EXCEPT !.files_processed = @ + 1]
            /\ pc' = "read_line"
            /\ UNCHANGED returned
    /\ UNCHANGED other_vars
    /\ UNCHANGED <<options, openable, host_utc_offset, since_bound, until_bound,
                   file_index, frequency, current_line>>

\* A slip: the time stage is active only when both bounds are given.
has_time_filter_needing_both(opts) == opts.since.has_value /\ opts.until.has_value

has_time_filter(opts) == opts.since.has_value \/ opts.until.has_value

\* A slip: the bounds are exclusive.
time_stage_exclusive(line, opts, since, until, utc_offset) ==
    IF has_time_filter(opts)
    THEN LET parsed == parse_timestamp_prefix(line, utc_offset)
         IN  IF ~parsed.has_value THEN FALSE
             ELSE IF since.has_value /\ ~TimeLess(since.value, parsed.value.epoch_seconds)
             THEN FALSE
             ELSE IF until.has_value /\ ~TimeLess(parsed.value.epoch_seconds, until.value)
             THEN FALSE
             ELSE TRUE
    ELSE TRUE

\* The time stage of the loop body: TRUE when the line goes on to the next stage.
time_stage(line, opts, since, until, utc_offset) ==
    IF has_time_filter(opts)
    THEN LET parsed == parse_timestamp_prefix(line, utc_offset)
         IN  IF ~parsed.has_value THEN FALSE
             ELSE IF since.has_value /\ TimeLess(parsed.value.epoch_seconds, since.value)
             THEN FALSE
             ELSE IF until.has_value /\ TimeLess(until.value, parsed.value.epoch_seconds)
             THEN FALSE
             ELSE TRUE
    ELSE TRUE

contains_stage(line, opts) ==
    ~(opts.contains.has_value /\ ~Contains(line, opts.contains.value))

\* A slip: the level keyword is searched in the line as written.
level_stage_case_sensitive(line, opts) ==
    ~(opts.level.has_value /\ ~Contains(line, Keyword(opts.level.value)))

level_stage(line, opts) ==
    ~(opts.level.has_value /\ ~line_has_level(line, opts.level.value))

\* The line reaches ++result.matched_lines.
line_matches(line, opts, since, until, utc_offset) ==
    /\ time_stage(line, opts, since, until, utc_offset)
    /\ contains_stage(line, opts)
    /\ level_stage(line, opts)

\* A slip: the count is assigned, not incremented.
Increment_overwriting(freq, key) ==
    [k \in DOMAIN freq \cup {key} |-> IF k = key THEN 1 ELSE freq[k]]

\* ++frequency[key]
Increment(freq, key) ==
    [k \in DOMAIN freq \cup {key} |->
        IF k = key THEN (IF key \in DOMAIN freq THEN freq[key] + 1 ELSE 1) ELSE freq[k]]

\* A slip: every level whose keyword the line holds is tallied.
Tally_every_keyword(by_level, line) ==
    [l \in LogLevel |-> IF line_has_level(line, l) THEN by_level[l] + 1 ELSE by_level[l]]

\* ++result.matched_by_level[*detected], when a level is detected.
Tally(by_level, line) ==
    LET detected == detect_level(line)
    IN  IF detected.has_value
        THEN [by_level EXCEPT ![detected.value] = @ + 1]
        ELSE by_level

\* One iteration of while (std::getline(in, line)), getline delivering input.
ReadLine(input) ==
    /\ pc = "read_line"
    /\ result.total_lines < MaxLines
    /\ current_line' = Some(input)
    /\ IF line_matches(input, options, since_bound, until_bound, host_utc_offset)
       THEN /\ result' = [result EXCEPT !.total_lines = @ + 1,
                                        !.matched_lines = @ + 1,
                                        !.matched_by_level = Tally(@, input)]
            /\ frequency' = Increment(frequency, normalize_line(input))
       ELSE /\ result' = [result EXCEPT !.total_lines = @ + 1]
            /\ UNCHANGED frequency
    /\ UNCHANGED other_vars
    /\ UNCHANGED <<options, openable, host_utc_offset, pc, since_bound, until_bound,
                   file_index, open_streams, open_attempts, returned>>

\* A slip: the stream outlives the loop body.
EndOfFile_leaking_stream ==
    /\ pc = "read_line"
    /\ current_line' = nullopt
    /\ file_index' = file_index + 1
    /\ pc' = "next_file"
    /\ UNCHANGED other_vars
    /\ UNCHANGED <<options, openable, host_utc_offset, since_bound, until_bound,
                   open_streams, open_attempts, frequency, result, returned>>

\* std::getline fails: the body of the range-for ends; in and line are destroyed.
EndOfFile ==
    /\ pc = "read_line"
    /\ current_line' = nullopt
    /\ open_streams' = open_streams \ {file_index}
    /\ file_index' = file_index + 1
    /\ pc' = "next_file"
    /\ UNCHANGED other_vars
    /\ UNCHANGED <<options, openable, host_utc_offset, since_bound, until_bound,
                   open_attempts, frequency, result, returned>>

\* A slip: the comparator without its tie-break on the normalized line.
cmp_without_tie_break(lhs, rhs) == lhs.count > rhs.count

\* The comparator of the partial sort: lhs goes before rhs.
cmp(lhs, rhs) ==
    IF lhs.count # rhs.count THEN lhs.count > rhs.count
    ELSE StringLess(lhs.normalized_line, rhs.normalized_line)

\* The iteration orders an unordered_map over these keys can have.
IterationOrders(freq) ==
    LET n == Cardinality(DOMAIN freq)
    IN  {order \in [1..n -> DOMAIN freq] : \A i, j \in 1..n : i # j => order[i] # order[j]}

\* for (auto& [line, count] : frequency) entries.push_back(TopLine{line, count});
Materialize(freq, order) ==
    [i \in 1..Len(order) |-> [normalized_line |-> order[i], count |-> freq[order[i]]]]

RemoveAt(seq, i) == SubSeq(seq, 1, i - 1) \o SubSeq(seq, i + 1, Len(seq))

\* std::partial_sort(begin, begin + limit, end, cmp) followed by resize(limit):
\* the limit smallest elements under cmp, in order.
RECURSIVE partial_sort(_, _)
partial_sort(entries, limit) ==
    IF limit = 0 \/ entries = <<>> THEN <<>>
    ELSE LET first == CHOOSE i \in 1..Len(entries) :
                          /\ \A j \in 1..Len(entries) : ~cmp(entries[j], entries[i])
                          /\ \A k \in 1..(i - 1) :
                                 \E j \in 1..Len(entries) : cmp(entries[j], entries[k])
         IN  <<entries[first]>> \o partial_sort(RemoveAt(entries, first), limit - 1)

\* std::min
Min(a, b) == IF b < a THEN b ELSE a

\* A slip: the vector is sorted but never cut to limit.
top_k_without_resize(entries, top_n) ==
    LET limit == Min(top_n, Len(entries))
    IN  IF limit = 0 THEN <<>> ELSE partial_sort(entries, Len(entries))

\* Lines 384-392: the returned top_lines.
top_k(entries, top_n) ==
    LET limit == Min(top_n, Len(entries))
    IN  IF limit = 0 THEN <<>> ELSE partial_sort(entries, limit)

\* After the last file: materialize, select and return.
TopK ==
    /\ pc = "next_file"
    /\ file_index > Len(options.files)
    /\ \E order \in IterationOrders(frequency) :
           result' = [result EXCEPT !.top_lines = top_k(Materialize(frequency, order),
                                                        options.top_n)]
    /\ returned' = [kind |-> "result", value |-> result']
    /\ pc' = "done"
    /\ UNCHANGED other_vars
    /\ UNCHANGED <<options, openable, host_utc_offset, since_bound, until_bound,
                   file_index, open_streams, open_attempts, frequency, current_line>>

Next ==
    \/ Validate
    \/ OpenFile
    \/ \E input \in Lines : ReadLine(input)
    \/ EndOfFile
    \/ TopK

Spec == Init /\ [][Next]_vars

-----------------------------------------------------------------------------
(* normalize_line on its own                                               *)

Tokens == { " ", "\t", "7", "42", "a", "<num>", "<empty>" }

\* The strings made of at most n tokens.
RECURSIVE TokenStrings(_)
TokenStrings(n) ==
    IF n = 0 THEN {""}
    ELSE LET shorter == TokenStrings(n - 1)
         IN  shorter \cup {s \o t : s \in shorter, t \in Tokens}

\* A default-constructed SummarizeOptions.
DefaultOptions ==
    [ files |-> <<>>, contains |-> nullopt, level |-> nullopt, since |-> nullopt,
      until |-> nullopt, top_n |-> DefaultTopN ]

NormalizeInit ==
    /\ normalizer \in [x : TokenStrings(MaxTokens), once : {nullopt}, twice : {nullopt}]
    /\ options = DefaultOptions
    /\ openable = <<>>
    /\ host_utc_offset = 0
    /\ pc = "validate"
    /\ since_bound = nullopt
    /\ until_bound = nullopt
    /\ file_index = 1
    /\ open_streams = {}
    /\ open_attempts = 0
    /\ frequency = NoFrequency
    /\ result = EmptyResult
    /\ returned = [kind |-> "none"]
    /\ current_line = nullopt
    /\ process = NoProcess
    /\ stamp = NoStamp

NormalizeOnce ==
    /\ ~normalizer.once.has_value
    /\ normalizer' = [normalizer EXCEPT !.once = Some(normalize_line(normalizer.x))]
    /\ UNCHANGED <<summarize_vars, process, stamp>>

NormalizeAgain ==
    /\ normalizer.once.has_value
    /\ ~normalizer.twice.has_value
    /\ normalizer' = [normalizer EXCEPT !.twice = Some(normalize_line(normalizer.once.value))]
    /\ UNCHANGED <<summarize_vars, process, stamp>>

NormalizeNext == NormalizeOnce \/ NormalizeAgain

NormalizeSpec == NormalizeInit /\ [][NormalizeNext]_vars

-----------------------------------------------------------------------------
(* main: the command line                                                  *)

parse_level(raw) ==
    LET lower == to_lower_copy(raw)
    IN  IF lower = "error" THEN Some(Error)
        ELSE IF lower = "warn" THEN Some(Warn)
        ELSE IF lower = "info" THEN Some(Info)
        ELSE IF lower = "debug" THEN Some(Debug)
        ELSE nullopt

\* The options main registers on the summarize subcommand that take a value.
ValueOptions == {"--contains", "--level", "--top"}

\* The flags main registers on the summarize subcommand.
Flags == {"--json"}

\* The token has the shape of a long option.
IsOption(token) == Len(token) > 2 /\ SubSeq(token, 1, 2) = "--"

\* What the parser has collected before its checks run.
NothingParsed ==
    [ files |-> <<>>,
      given |-> [name \in ValueOptions |-> nullopt],
      json |-> FALSE,
      extras |-> <<>>,
      missing_value |-> FALSE ]

\* The parser's walk over the tokens after the subcommand name: a registered
\* option takes the next token as its value, a token of option shape that is
\* not registered is left over, anything else is a positional (files).
RECURSIVE Collect(_, _, _)
Collect(argv, i, acc) ==
    IF i > Len(argv) THEN acc
    ELSE IF argv[i] \in Flags THEN Collect(argv, i + 1, [acc EXCEPT !.json = TRUE])
    ELSE IF argv[i] \in ValueOptions
         THEN IF i = Len(argv) THEN [acc EXCEPT !.missing_value = TRUE]
              ELSE Collect(argv, i + 2, [acc EXCEPT !.given[argv[i]] = Some(argv[i + 1])])
    ELSE IF IsOption(argv[i])
         THEN Collect(argv, i + 1, [acc EXCEPT !.extras = Append(@, argv[i])])
    ELSE Collect(argv, i + 1, [acc EXCEPT !.files = Append(@, argv[i])])

\* The conversion of an option value to std::size_t.
to_size(text) ==
    IF text = "" THEN nullopt ELSE parse_fixed_int(text, 0, Len(text))

\* CLI::IsMember({"error", "warn", "info", "debug"}, CLI::ignore_case)
IsMember(text) == to_lower_copy(text) \in {"error", "warn", "info", "debug"}

\* CLI::PositiveNumber
PositiveNumber(n) == n > 0

\* CLI11_PARSE(app, argc, argv) for argv[1..]: the values bound to main's
\* variables, or ok = FALSE when the parser reports an error (main then
\* returns the parser's non-zero exit code).
parse_command_line(argv, exists) ==
    LET failed == [ok |-> FALSE]
    IN  IF argv = <<>> \/ argv[1] # "summarize" THEN failed
        ELSE LET got == Collect(argv, 2, NothingParsed)
                 top == IF got.given["--top"].has_value
                        THEN to_size(got.given["--top"].value)
                        ELSE Some(DefaultTopN)
             IN  IF got.missing_value \/ got.extras # <<>> THEN failed
                 ELSE IF got.files = <<>> THEN failed
                 ELSE IF \E i \in 1..Len(got.files) : ~exists[got.files[i]] THEN failed
                 ELSE IF got.given["--level"].has_value /\ ~IsMember(got.given["--level"].value)
                 THEN failed
                 ELSE IF ~top.has_value THEN failed
                 ELSE IF got.given["--top"].has_value /\ ~PositiveNumber(top.value) THEN failed
                 ELSE [ ok |-> TRUE,
                        files |-> got.files,
                        contains_raw |-> got.given["--contains"],
                        level_raw |-> got.given["--level"],
                        top_n |-> top.value,
                        print_json_output |-> got.json ]

\* The command lines given to main (argv[1..]).
CommandLines ==
    { <<"summarize", "a.log">>,
      <<"summarize", "a.log", "--top", "0">>,
      <<"summarize", "a.log", "--top", "2", "--json">>,
      <<"summarize", "a.log", "--top", "x">>,
      <<"summarize", "a.log", "--since", "2026-02-09T18:01:03Z">>,
      <<"summarize", "a.log", "--until", "2026-02-09 18:01:03", "--json">>,
      <<"summarize", "a.log", "b.log", "--level", "WARN", "--contains", "connected">>,
      <<"summarize", "a.log", "--level", "fatal">>,
      <<"summarize", "--json">>,
      <<>> }

\* The file names of a command line.
FilesOf(argv) == IF argv = <<>> THEN <<>> ELSE Collect(argv, 2, NothingParsed).files

MainInit ==
    /\ \E argv \in CommandLines :
       \E exists \in [{FilesOf(argv)[i] : i \in 1..Len(FilesOf(argv))} -> BOOLEAN] :
           /\ process = [ started |-> TRUE, argv |-> argv, exists |-> exists,
                          print_json_output |-> FALSE, exit |-> nullopt ]
           /\ openable \in [1..Len(FilesOf(argv)) -> BOOLEAN]
           /\ \A i \in 1..Len(FilesOf(argv)) : openable[i] => exists[FilesOf(argv)[i]]
    /\ options = DefaultOptions
    /\ host_utc_offset \in HostUtcOffsets
    /\ pc = "main"
    /\ since_bound = nullopt
    /\ until_bound = nullopt
    /\ file_index = 1
    /\ open_streams = {}
    /\ open_attempts = 0
    /\ frequency = NoFrequency
    /\ result = EmptyResult
    /\ returned = [kind |-> "none"]
    /\ current_line = nullopt
    /\ normalizer = [x |-> "", once |-> nullopt, twice |-> nullopt]
    /\ stamp = NoStamp

\* main up to the call of summarize: the parse, then the copy of the raw
\* option values into summarize_options.
ParseCommandLine ==
    /\ process.started
    /\ pc = "main"
    /\ LET parsed == parse_command_line(process.argv, process.exists)
           level == IF parsed.level_raw.has_value
                    THEN parse_level(parsed.level_raw.value) ELSE nullopt
       IN  IF ~parsed.ok
           THEN /\ process' = [process EXCEPT !.exit = Some([kind |-> "parse_error"])]
                /\ pc' = "exited"
                /\ UNCHANGED options
           ELSE IF parsed.level_raw.has_value /\ ~level.has_value
           THEN /\ process' = [process EXCEPT !.exit = Some([kind |-> "terminate",
                                                             what |-> "invalid --level value"])]
                /\ pc' = "exited"
                /\ UNCHANGED options
           ELSE /\ options' = [DefaultOptions EXCEPT !.files = parsed.files,
                                                     !.contains = parsed.contains_raw,
                                                     !.level = level,
                                                     !.top_n = parsed.top_n]
                /\ process' = [process EXCEPT !.print_json_output = parsed.print_json_output]
                /\ pc' = "validate"
    /\ UNCHANGED <<openable, host_utc_offset, since_bound, until_bound, file_index,
                   open_streams, open_attempts, frequency, result, returned, current_line,
                   normalizer, stamp>>

\* main after summarize: the result is printed and main returns 0; an
\* exception thrown by summarize is caught nowhere.
Exit ==
    /\ process.started
    /\ pc = "done"
    /\ process' =
           IF returned.kind = "result"
           THEN [process EXCEPT !.exit =
                    Some([kind |-> "status", status |-> 0,
                          printed |-> [format |-> IF process.print_json_output
                                                  THEN "json" ELSE "table",
                                       result |-> returned.value]])]
           ELSE [process EXCEPT !.exit = Some([kind |-> "terminate", what |-> returned.what])]
    /\ pc' = "exited"
    /\ UNCHANGED <<summarize_vars_but_pc, normalizer, stamp>>

MainNext ==
    \/ ParseCommandLine
    \/ Validate
    \/ OpenFile
    \/ \E input \in Lines : ReadLine(input)
    \/ EndOfFile
    \/ TopK
    \/ Exit

MainSpec == MainInit /\ [][MainNext]_vars

-----------------------------------------------------------------------------
(* parse_timestamp_prefix on its own                                       *)

StampDates ==
    { "0000-01-01", "1969-12-31", "1970-01-01", "2000-02-29", "2024-02-29", "2100-02-29",
      "2026-02-09", "2026-02-30", "2026-04-31", "2026-13-01", "2026-00-10", "2026-02-00",
      "9999-12-31", "20x6-02-09", "2026/02/09" }

StampSeparators == { "T", " ", "t" }

StampTimes ==
    { "00:00:00", "00:59:59", "23:59:59", "24:00:00", "18:60:03", "18:01:60", "18:01:03",
      "18.01.03", "1a:01:03" }

StampTails == { "", "Z", "Z INFO", " INFO", "\tINFO", "Zx", "Z\tx", "x", "ZZ" }

\* The strings parse_timestamp_prefix is called with.
StampInputs ==
    { d \o p \o t \o z : d \in StampDates, p \in StampSeparators, t \in StampTimes,
                         z \in StampTails }
    \cup { "", "2026-02-09", "2026-02-09T18:01:0" }

StampInit ==
    /\ stamp \in [input : StampInputs, parsed : {nullopt}, called : {FALSE}]
    /\ host_utc_offset \in HostUtcOffsets
    /\ options = DefaultOptions
    /\ openable = <<>>
    /\ pc = "validate"
    /\ since_bound = nullopt
    /\ until_bound = nullopt
    /\ file_index = 1
    /\ open_streams = {}
    /\ open_attempts = 0
    /\ frequency = NoFrequency
    /\ result = EmptyResult
    /\ returned = [kind |-> "none"]
    /\ current_line = nullopt
    /\ normalizer = [x |-> "", once |-> nullopt, twice |-> nullopt]
    /\ process = NoProcess

ParsePrefix ==
    /\ ~stamp.called
    /\ stamp' = [stamp EXCEPT !.parsed = parse_timestamp_prefix(stamp.input, host_utc_offset),
                              !.called = TRUE]
    /\ UNCHANGED <<summarize_vars, normalizer, process>>

StampNext == ParsePrefix

StampSpec == StampInit /\ [][StampNext]_vars

-----------------------------------------------------------------------------
(* Properties                                                              *)

\* The step is one iteration of the getline loop; current_line' holds its line.
ReadStep == result'.total_lines = result.total_lines + 1

MatchedStep == result'.matched_lines = result.matched_lines + 1

Succeeded == pc = "done" /\ returned.kind = "result"

\* C1: at every point of a run matched_lines <= total_lines, and neither
\* counter ever decreases, whatever the files, lines and filters.
C1_MatchedAtMostTotalAndMonotone ==
    /\ [](result.matched_lines <= result.total_lines)
    /\ [][/\ result'.total_lines >= result.total_lines
          /\ result'.matched_lines >= result.matched_lines]_vars

\* C1 witness: a finished run over two files with all three kinds of filter set,
\* in which some but not all lines matched.
C1_Witness ==
    /\ Succeeded
    /\ result.files_processed = 2
    /\ options.since.has_value /\ options.contains.has_value /\ options.level.has_value
    /\ result.matched_lines >= 1
    /\ result.matched_lines < result.total_lines

\* C2: the returned top_lines are the first min(top, distinct) entries of the
\* frequency table ordered by count descending, ties by key ascending
\* (byte-wise): entries are table entries, adjacent entries are in order, and
\* no entry left out would sort before the last one returned; so the hash
\* map's iteration order has no influence.
C2_TopLinesAreTheSortedPrefix ==
    Succeeded =>
        LET top == returned.value.top_lines
            n == Len(top)
            keys == DOMAIN frequency
        IN  /\ n = Min(options.top_n, Cardinality(keys))
            /\ \A i \in 1..n : /\ top[i].normalized_line \in keys
                               /\ top[i].count = frequency[top[i].normalized_line]
            /\ \A i, j \in 1..n : i # j => top[i].normalized_line # top[j].normalized_line
            /\ \A i \in 1..(n - 1) :
                   /\ top[i].count >= top[i + 1].count
                   /\ top[i].count = top[i + 1].count =>
                          ~StringLess(top[i + 1].normalized_line, top[i].normalized_line)
            /\ n > 0 =>
                   \A k \in keys \ {top[i].normalized_line : i \in 1..n} :
                       \/ frequency[k] < top[n].count
                       \/ /\ frequency[k] = top[n].count
                          /\ StringLess(top[n].normalized_line, k)

\* C2 witness: three keys of equal count and top = 2, so the tie-break alone
\* decides which two are returned and in which order.
C2_Witness ==
    /\ Succeeded
    /\ options.top_n = 2
    /\ Cardinality(DOMAIN frequency) = 3
    /\ \A k \in DOMAIN frequency : frequency[k] = 1
    /\ Len(returned.value.top_lines) = 2

\* C3: on success top_lines has min(top_n, distinct keys) entries, none when
\* top_n = 0 however many lines matched; and the step that applies top_n hands
\* back the counters and level tallies exactly as the scan left them.
C3_TopLinesLengthAndCountersKept ==
    /\ [](Succeeded =>
            /\ Len(returned.value.top_lines) =
                   Min(options.top_n, Cardinality(DOMAIN frequency))
            /\ options.top_n = 0 => returned.value.top_lines = <<>>)
    /\ [][returned.kind # "result" /\ returned'.kind = "result" =>
            /\ returned'.value.files_processed = result.files_processed
            /\ returned'.value.total_lines = result.total_lines
            /\ returned'.value.matched_lines = result.matched_lines
            /\ returned'.value.matched_by_level = result.matched_by_level]_vars

\* C3 witness: top_n = 0 with three matched lines and an empty top_lines.
C3_Witness ==
    /\ Succeeded
    /\ options.top_n = 0
    /\ returned.value.matched_lines = 3
    /\ Cardinality(DOMAIN frequency) >= 2
    /\ returned.value.top_lines = <<>>

\* C4: with since or until set (either alone or both) a line whose prefix
\* does not parse as a timestamp changes neither matched_lines, nor a level
\* tally, nor the frequency table, whatever the other filters; with neither
\* set a line is matched exactly when the substring and level stages let it
\* through, so with no filter at all every line is matched.
C4_UnparseableLinesAndTheTimeStage ==
    [][ReadStep =>
          \A text \in {current_line'.value} :
          \A parses \in {parse_timestamp_prefix(text, host_utc_offset).has_value} :
              /\ (options.since.has_value \/ options.until.has_value) /\ ~parses =>
                     /\ result'.matched_lines = result.matched_lines
                     /\ result'.matched_by_level = result.matched_by_level
                     /\ frequency' = frequency
              /\ ~options.since.has_value /\ ~options.until.has_value =>
                     (MatchedStep <=> (contains_stage(text, options) /\ level_stage(text, options)))
              /\ /\ ~options.since.has_value /\ ~options.until.has_value
                 /\ ~options.contains.has_value /\ ~options.level.has_value
                 => MatchedStep]_vars

\* C4 witness: only until is set, no other filter, and the line just read has
\* no timestamp and was not matched.
C4_Witness ==
    /\ pc = "read_line"
    /\ ~options.since.has_value /\ options.until.has_value
    /\ ~options.contains.has_value /\ ~options.level.has_value
    /\ current_line = Some("[ERROR] connected user=101")
    /\ result.total_lines = 1
    /\ result.matched_lines = 0

\* since <= t <= until for whichever bounds are set.
WithinBounds(t) ==
    /\ since_bound.has_value => (since_bound.value = t \/ TimeLess(since_bound.value, t))
    /\ until_bound.has_value => (until_bound.value = t \/ TimeLess(t, until_bound.value))

\* C5: the bounds are inclusive: under a time filter a line with timestamp t
\* is matched exactly when since <= t <= until (for the bounds that are set)
\* and the later stages let it through; and options whose since and until are
\* the same instant pass validation.
C5_TimeBoundsInclusive ==
    /\ [][ReadStep /\ (options.since.has_value \/ options.until.has_value) =>
            \A text \in {current_line'.value} :
            \A parsed \in {parse_timestamp_prefix(text, host_utc_offset)} :
                parsed.has_value =>
                    (MatchedStep <=> /\ WithinBounds(parsed.value.epoch_seconds)
                                     /\ contains_stage(text, options)
                                     /\ level_stage(text, options))]_vars
    /\ [](LET since == parse_timestamp_exact(options.since.value, host_utc_offset)
              until == parse_timestamp_exact(options.until.value, host_utc_offset)
          IN  /\ options.files # <<>>
              /\ options.since.has_value /\ options.until.has_value
              /\ since.has_value /\ until.has_value /\ since = until
              => returned.kind # "invalid_argument" /\ (pc # "validate" => since_bound = until_bound))

\* C5 witness: since and until are the same instant and the line just read,
\* stamped with exactly that instant, was matched.
C5_Witness ==
    /\ pc = "read_line"
    /\ since_bound.has_value /\ since_bound = until_bound
    /\ current_line.has_value
    /\ parse_timestamp_prefix(current_line.value, host_utc_offset) =
           Some([epoch_seconds |-> since_bound.value, consumed_chars |-> 19])
    /\ result.total_lines = 1
    /\ result.matched_lines = 1

\* C6: normalize_line is idempotent, and its output holds no ASCII digit, no
\* leading or trailing space and no two whitespace characters in a row.
C6_NormalizeIdempotent ==
    /\ normalizer.twice.has_value => normalizer.twice = normalizer.once
    /\ normalizer.once.has_value =>
           LET out == normalizer.once.value
           IN  /\ \A i \in 1..Len(out) : ~isdigit(At(out, i))
               /\ out # ""
               /\ ~isspace(At(out, 1))
               /\ ~isspace(At(out, Len(out)))
               /\ \A i \in 1..(Len(out) - 1) : ~(isspace(At(out, i)) /\ isspace(At(out, i + 1)))

\* C6 witness: an input holding the token <num>, a tab and digits, normalized twice.
C6_Witness ==
    /\ normalizer.x = "<num>\t42"
    /\ normalizer.once = Some("<num> <num>")
    /\ normalizer.twice = Some("<num> <num>")

\* The options that validation must reject.
InvalidOptions ==
    LET since == parse_timestamp_exact(options.since.value, host_utc_offset)
        until == parse_timestamp_exact(options.until.value, host_utc_offset)
    IN  \/ options.files = <<>>
        \/ options.since.has_value /\ ~since.has_value
        \/ options.until.has_value /\ ~until.has_value
        \/ /\ options.since.has_value /\ options.until.has_value
           /\ since.has_value /\ until.has_value
           /\ TimeLess(until.value, since.value)

\* C7: with an empty file list, a since or until that does not exact-parse, or
\* since > until, the run ends with invalid_argument, without ever opening a
\* file and without a SummaryResult; and invalid_argument has no other cause.
C7_InvalidOptionsFailBeforeAnyOpen ==
    /\ InvalidOptions =>
           /\ pc \in {"validate", "done"}
           /\ pc = "done" => returned.kind = "invalid_argument"
           /\ returned.kind \in {"none", "invalid_argument"}
           /\ open_attempts = 0
           /\ open_streams = {}
           /\ result = EmptyResult
    /\ returned.kind = "invalid_argument" => InvalidOptions /\ open_attempts = 0

\* C7 witness: two openable files, both bounds well-formed, since later than
\* until: the run has ended with invalid_argument.
C7_Witness ==
    /\ pc = "done"
    /\ returned.kind = "invalid_argument"
    /\ Len(options.files) = 2
    /\ \A i \in 1..2 : openable[i]
    /\ options.since.has_value /\ options.until.has_value
    /\ parse_timestamp_exact(options.since.value, host_utc_offset).has_value
    /\ parse_timestamp_exact(options.until.value, host_utc_offset).has_value

\* C8: a run is all-or-nothing. A result carries files_processed = number of
\* input files; a run whose k-th file cannot be opened ends with runtime_error
\* (not invalid_argument) and no result, after files 1..k-1 were scanned, and
\* no file after the k-th is opened.
C8_AllOrNothing ==
    LET n == Len(options.files)
        unopenable == {i \in 1..n : ~openable[i]}
    IN  /\ returned.kind \in {"none", "result", "invalid_argument", "runtime_error"}
        /\ (pc = "done") <=> (returned.kind # "none")
        /\ returned.kind = "result" =>
               /\ returned.value.files_processed = n
               /\ unopenable = {}
               /\ open_attempts = n
        /\ returned.kind # "result" => DOMAIN returned \subseteq {"kind", "what"}
        /\ returned.kind = "runtime_error" =>
               /\ file_index \in unopenable
               /\ \A i \in unopenable : file_index <= i
               /\ open_attempts = file_index
               /\ result.files_processed = file_index - 1
        /\ pc = "done" /\ ~InvalidOptions /\ unopenable # {} =>
               returned.kind = "runtime_error"

\* C8 witness: the second file cannot be opened; the first was scanned (lines
\* were read and matched) and the run ended with runtime_error.
C8_Witness ==
    /\ pc = "done"
    /\ returned.kind = "runtime_error"
    /\ file_index = 2
    /\ result.files_processed = 1
    /\ result.matched_lines >= 1

RECURSIVE SumOfCounts(_)
SumOfCounts(freq) ==
    IF DOMAIN freq = {} THEN 0
    ELSE LET k == CHOOSE key \in DOMAIN freq : TRUE
         IN  freq[k] + SumOfCounts([key \in DOMAIN freq \ {k} |-> freq[key]])

\* C9: at every point the counts of the frequency table add up to
\* matched_lines, there are at most matched_lines keys and every count is at
\* least 1; a matched line adds exactly 1 to the count of its normalized form
\* and to nothing else, and no other step touches the table.
C9_FrequencyCountsSumToMatched ==
    /\ [](/\ SumOfCounts(frequency) = result.matched_lines
          /\ Cardinality(DOMAIN frequency) <= result.matched_lines
          /\ \A k \in DOMAIN frequency : frequency[k] >= 1)
    /\ [][IF ReadStep /\ MatchedStep
          THEN \A key \in {normalize_line(current_line'.value)} :
               LET before == IF key \in DOMAIN frequency THEN frequency[key] ELSE 0
               IN  /\ DOMAIN frequency' = DOMAIN frequency \cup {key}
                   /\ frequency'[key] = before + 1
                   /\ \A k \in DOMAIN frequency \ {key} : frequency'[k] = frequency[k]
          ELSE frequency' = frequency]_vars

\* C9 witness: three lines read, two of them matched under the same key.
C9_Witness ==
    /\ result.total_lines = 3
    /\ result.matched_lines = 2
    /\ \E k \in DOMAIN frequency : frequency[k] = 2

\* C10: a level tally grows by at most 1 per line, and only on a matched line
\* whose text holds the level's keyword in any letter case; on a matched line
\* the level that grows is fixed by the text alone (the first of Error, Warn,
\* Info, Debug whose keyword the text holds), whatever the level filter.
C10_LevelTallies ==
    [][IF ReadStep
       THEN \A lower \in {to_lower_copy(current_line'.value)} :
            \A held \in {{l \in LogLevel : Contains(lower, Keyword(l))}} :
            \A l \in LogLevel :
                LET grows == result'.matched_by_level[l] = result.matched_by_level[l] + 1
                IN  /\ grows \/ result'.matched_by_level[l] = result.matched_by_level[l]
                    /\ grows => MatchedStep /\ l \in held
                    /\ MatchedStep =>
                           (grows <=> (l \in held /\ \A h \in held : l <= h))
       ELSE result'.matched_by_level = result.matched_by_level]_vars

\* C10 witness: the level filter is Debug; the one line read holds "warning"
\* and "debug", was matched, and was tallied under Warn.
C10_Witness ==
    /\ options.level = Some(Debug)
    /\ current_line = Some("2026-02-09 18:01:03 warning: debug disconnected 95%")
    /\ result.total_lines = 1
    /\ result.matched_lines = 1
    /\ result.matched_by_level[Warn] = 1
    /\ result.matched_by_level[Debug] = 0

\* The token after the first occurrence of name on the command line.
ValueGiven(argv, name) ==
    LET at == {i \in 1..(Len(argv) - 1) : argv[i] = name}
    IN  IF at = {} THEN nullopt
        ELSE Some(argv[(CHOOSE i \in at : \A j \in at : i <= j) + 1])

\* The command line with the first occurrence of name and its value taken out.
Without(argv, name) ==
    LET at == {i \in 1..(Len(argv) - 1) : argv[i] = name}
        first == CHOOSE i \in at : \A j \in at : i <= j
    IN  IF at = {} THEN argv
        ELSE SubSeq(argv, 1, first - 1) \o SubSeq(argv, first + 2, Len(argv))

\* C11: the command surface accepts --since <timestamp> and --until
\* <timestamp>: a command line that is valid without the option is not turned
\* down by the parser when the option is added, the option's value reaches
\* the summarizer as SummarizeOptions.since / .until, and the time-range
\* filter of the run is active.
C11_SinceAndUntilReachTheSummarizer ==
    \A name \in {"--since", "--until"} :
        /\ process.started
        /\ pc # "main"
        /\ ValueGiven(process.argv, name).has_value
        /\ parse_command_line(Without(process.argv, name), process.exists).ok
        => /\ ~(process.exit.has_value /\ process.exit.value.kind = "parse_error")
           /\ (IF name = "--since" THEN options.since ELSE options.until) =
                  ValueGiven(process.argv, name)
           /\ has_time_filter(options)

\* C12: the command surface accepts --top with every non-negative integer, 0
\* included: a command line that is valid without the option is not turned
\* down when --top n is added, n reaches the summarizer as top_n, and a run
\* with --top 0 whose files open ends with exit status 0 and an empty
\* top_lines list printed.
C12_TopAcceptsEveryNonNegativeInteger ==
    /\ process.started
    /\ pc # "main"
    /\ ValueGiven(process.argv, "--top").has_value
    /\ to_size(ValueGiven(process.argv, "--top").value).has_value
    /\ parse_command_line(Without(process.argv, "--top"), process.exists).ok
    => /\ ~(process.exit.has_value /\ process.exit.value.kind = "parse_error")
       /\ options.top_n = to_size(ValueGiven(process.argv, "--top").value).value
       /\ /\ options.top_n = 0
          /\ pc = "exited"
          /\ \A i \in DOMAIN openable : openable[i]
          => /\ process.exit.value.kind = "status"
             /\ process.exit.value.status = 0
             /\ process.exit.value.printed.result.top_lines = <<>>

\* The number written by the characters first..last of text, all digits.
Number(text, first, last) ==
    LET RECURSIVE Upto(_)
        Upto(i) == IF i < first THEN 0 ELSE Upto(i - 1) * 10 + DigitValue[At(text, i)]
    IN  Upto(last)

\* The Gregorian calendar, stated without the code's tables.
GregorianLeap(year) == (year % 4 = 0 /\ year % 100 # 0) \/ year % 400 = 0

GregorianDaysIn(year, month) ==
    IF month = 2 THEN (IF GregorianLeap(year) THEN 29 ELSE 28)
    ELSE IF month \in {4, 6, 9, 11} THEN 30 ELSE 31

\* Days from 0000-01-01 to the first day of year (year 0000 is a leap year).
DaysBeforeYear(year) ==
    365 * year + (year + 3) \div 4 - (year + 99) \div 100 + (year + 399) \div 400

RECURSIVE DaysBeforeMonth(_, _)
DaysBeforeMonth(year, month) ==
    IF month = 1 THEN 0
    ELSE DaysBeforeMonth(year, month - 1) + GregorianDaysIn(year, month - 1)

\* Seconds from 1970-01-01T00:00:00Z to the UTC calendar time, as <<day, sec>>.
CalendarToEpoch(year, month, day, hour, minute, second) ==
    <<DaysBeforeYear(year) - DaysBeforeYear(1970) + DaysBeforeMonth(year, month) + day - 1,
      hour * 3600 + minute * 60 + second>>

\* The input starts with the fixed-width form: the UTC one (T, Z, 20
\* characters) or the local one (a space, 19 characters).
StartsWithForm(input, utc) ==
    LET width == IF utc THEN 20 ELSE 19
    IN  /\ Len(input) >= width
        /\ At(input, 5) = "-" /\ At(input, 8) = "-"
        /\ At(input, 14) = ":" /\ At(input, 17) = ":"
        /\ At(input, 11) = (IF utc THEN "T" ELSE " ")
        /\ utc => At(input, 20) = "Z"
        /\ \A i \in {1, 2, 3, 4, 6, 7, 9, 10, 12, 13, 15, 16, 18, 19} : isdigit(At(input, i))
        /\ Number(input, 6, 7) \in 1..12
        /\ Number(input, 9, 10) \in 1..GregorianDaysIn(Number(input, 1, 4), Number(input, 6, 7))
        /\ Number(input, 12, 13) \in 0..23
        /\ Number(input, 15, 16) \in 0..59
        /\ Number(input, 18, 19) \in 0..59
        /\ Len(input) > width => isspace(At(input, width + 1))

\* The fields of a timestamp in one of the two forms.
FieldsOf(input) ==
    [ year |-> Number(input, 1, 4), month |-> Number(input, 6, 7),
      day |-> Number(input, 9, 10), hour |-> Number(input, 12, 13),
      minute |-> Number(input, 15, 16), second |-> Number(input, 18, 19) ]

\* C13: parse_timestamp_prefix succeeds exactly on the inputs that start with
\* one of the two fixed-width forms (separators in place, all-digit fields,
\* month, day, hour, minute and second in range, whitespace or nothing after
\* the timestamp), for every year 0000..9999; it then reports 20 consumed
\* characters for the UTC form and 19 for the local form, and the UTC form's
\* epoch seconds are the calendar-to-epoch value of the fields.
C13_PrefixParseAcceptsExactlyTheTwoForms ==
    stamp.called =>
        \A utc \in {StartsWithForm(stamp.input, TRUE)} :
        \A local \in {StartsWithForm(stamp.input, FALSE)} :
            /\ stamp.parsed.has_value <=> (utc \/ local)
            /\ stamp.parsed.has_value /\ utc => stamp.parsed.value.consumed_chars = 20
            /\ stamp.parsed.has_value /\ local => stamp.parsed.value.consumed_chars = 19
            /\ stamp.parsed.has_value /\ utc =>
                   stamp.parsed.value.epoch_seconds =
                       CalendarToEpoch(Number(stamp.input, 1, 4), Number(stamp.input, 6, 7),
                                       Number(stamp.input, 9, 10), Number(stamp.input, 12, 13),
                                       Number(stamp.input, 15, 16), Number(stamp.input, 18, 19))

\* C13 without its one exception: a well-formed timestamp is turned down only
\* when its conversion yields the value -1 (one second before the epoch),
\* which the code reads as a failed conversion.
C13_ExceptOneSecondBeforeTheEpoch ==
    stamp.called =>
        \A utc \in {StartsWithForm(stamp.input, TRUE)} :
        \A local \in {StartsWithForm(stamp.input, FALSE)} :
            /\ stamp.parsed.has_value => (utc \/ local)
            /\ utc /\ ~stamp.parsed.has_value =>
                   to_time_utc(FieldsOf(stamp.input)) = TimeMinusOne
            /\ local /\ ~stamp.parsed.has_value =>
                   mktime(FieldsOf(stamp.input), host_utc_offset) = TimeMinusOne
            /\ stamp.parsed.has_value /\ utc => stamp.parsed.value.consumed_chars = 20
            /\ stamp.parsed.has_value /\ local => stamp.parsed.value.consumed_chars = 19
            /\ stamp.parsed.has_value /\ utc =>
                   stamp.parsed.value.epoch_seconds =
                       CalendarToEpoch(Number(stamp.input, 1, 4), Number(stamp.input, 6, 7),
                                       Number(stamp.input, 9, 10), Number(stamp.input, 12, 13),
                                       Number(stamp.input, 15, 16), Number(stamp.input, 18, 19))

\* A step of the getline loop that stays in the loop: one line is processed.
LineStep == pc = "read_line" /\ pc' = "read_line" /\ vars' # vars

\* The three stages, stated on the text of the line.
PassesTimeRange(text) ==
    (options.since.has_value \/ options.until.has_value) =>
        \A parsed \in {parse_timestamp_prefix(text, host_utc_offset)} :
            parsed.has_value /\ WithinBounds(parsed.value.epoch_seconds)

PassesSubstring(text) == options.contains.has_value => Contains(text, options.contains.value)

PassesLevel(text) ==
    options.level.has_value => Contains(to_lower_copy(text), Keyword(options.level.value))

\* C14: processing one line adds exactly 1 to total_lines and leaves
\* files_processed alone; the line is matched exactly when it passes every
\* active stage (time range, case-sensitive substring, case-insensitive level
\* keyword); a line turned down by a stage leaves matched_lines, the four
\* level tallies and the frequency table as they were.
C14_OneLineFrameEffect ==
    [][LineStep =>
          \A text \in {current_line'.value} :
          \A passes \in {PassesTimeRange(text) /\ PassesSubstring(text) /\ PassesLevel(text)} :
              /\ result'.total_lines = result.total_lines + 1
              /\ result'.files_processed = result.files_processed
              /\ (result'.matched_lines = result.matched_lines + 1) <=> passes
              /\ ~passes => /\ result'.matched_lines = result.matched_lines
                            /\ result'.matched_by_level = result.matched_by_level
                            /\ frequency' = frequency]_vars

\* C14 witness: substring and level filters set; the first line passed both,
\* the second passed the substring stage and was turned down by the level stage.
C14_Witness ==
    /\ pc = "read_line"
    /\ ~options.since.has_value /\ ~options.until.has_value
    /\ options.contains = Some("connected")
    /\ options.level = Some(Debug)
    /\ current_line = Some("[ERROR] connected user=101")
    /\ result.total_lines = 2
    /\ result.matched_lines = 1
    /\ result.matched_by_level[Error] = 0

\* C15: at most one file stream is open at any moment; files are opened in
\* the order given; a file's stream is closed after its last line, before
\* the next file is opened; and no stream is open once the run has ended,
\* by return or by the failure to open a later file.
C15_OneStreamAtATime ==
    /\ [](/\ Cardinality(open_streams) <= 1
          /\ open_streams \subseteq {file_index}
          /\ pc \in {"validate", "next_file", "done"} => open_streams = {}
          /\ pc = "read_line" => open_streams = {file_index})
    /\ [][/\ open_streams' # open_streams /\ open_streams' # {} =>
                 /\ open_streams = {}
                 /\ open_streams' = {file_index}
                 /\ file_index = result.files_processed + 1
                 /\ file_index = open_attempts + 1
          /\ file_index' # file_index =>
                 /\ file_index' = file_index + 1
                 /\ open_streams = {file_index}
                 /\ open_streams' = {}
          /\ result'.total_lines # result.total_lines =>
                 open_streams = {file_index} /\ open_streams' = open_streams]_vars

\* C15 witness: the first file was read to its end, the second could not be
\* opened: the run has ended with no stream open.
C15_Witness ==
    /\ pc = "done"
    /\ returned.kind = "runtime_error"
    /\ open_attempts = 2
    /\ result.total_lines = 2
    /\ open_streams = {}

\* The sum of the tallies of the levels in the set.
RECURSIVE SumOfTallies(_, _)
SumOfTallies(by_level, levels) ==
    IF levels = {} THEN 0
    ELSE LET l == CHOOSE x \in levels : TRUE
         IN  by_level[l] + SumOfTallies(by_level, levels \ {l})

\* C16: a step changes at most one level tally, and the four tallies add up
\* to at most matched_lines; under a level filter W the tallies of the levels
\* after W in the order Error, Warn, Info, Debug stay 0 and the tallies of
\* Error .. W add up to exactly matched_lines.
C16_TalliesWithinMatched ==
    /\ [](/\ SumOfTallies(result.matched_by_level, LogLevel) <= result.matched_lines
          /\ options.level.has_value =>
                 /\ \A l \in LogLevel :
                        l > options.level.value => result.matched_by_level[l] = 0
                 /\ SumOfTallies(result.matched_by_level,
                                 {l \in LogLevel : l <= options.level.value}) =
                        result.matched_lines)
    /\ [][Cardinality({l \in LogLevel :
                          result'.matched_by_level[l] # result.matched_by_level[l]}) <= 1]_vars

\* C16 witness: the level filter is Debug and two lines matched, one of them
\* tallied under Warn: the tally of Debug is smaller than matched_lines.
C16_Witness ==
    /\ options.level = Some(Debug)
    /\ result.matched_lines = 2
    /\ result.matched_by_level[Warn] = 1
    /\ result.matched_by_level[Debug] = 1

====
